---------------------------- MODULE Spec2Model ----------------------------
(***************************************************************************)
(* Model of the provider router (orchestrator/multi_llm_router.py) and of  *)
(* the task coordinator (orchestrator/task_coordinator.py) of the          *)
(* agenticSeek-financial package.                                          *)
(*                                                                         *)
(* Money is counted in thousandths of a dollar per million tokens, so that *)
(* every cost of COST_MAP and every average (input + output) / 2 is an     *)
(* integer: 0.05 is 50, 2.50 is 2500.                                      *)
(*                                                                         *)
(* The clients of the provider libraries (ChatOpenAI, ChatAnthropic,       *)
(* ChatGroq, ChatGoogleGenerativeAI) are not code of this package: their   *)
(* constructors are taken to return.  create_llm itself raises only for a  *)
(* provider it does not know.                                              *)
(***************************************************************************)
EXTENDS Integers, Sequences, FiniteSets, TLC

VARIABLES
    \* ---- MultiLLMRouter fields (set by __init__) ----
    available_providers,  \* provider -> BOOLEAN
    default_provider,     \* "" stands for None
    default_model,        \* "" stands for None
    cost_optimization,    \* BOOLEAN
    \* ---- the last router call and what it produced ----
    call,
    \* ---- TaskCoordinator fields ----
    max_workers,          \* self.max_workers
    agents,               \* self.agents: agent type -> the agent stored (0: no entry)
    \* ---- the coordinator call in progress ----
    op,                   \* the public method called and its arguments
    batch_pc,             \* where batch_analyze stands
    pipe,                 \* per asset: where its analyze_*_comprehensive call stands
    task,                 \* per asset and agent type: where the sub-task stands
    results,              \* per asset: the results dict of _execute_parallel/_sequential
    batch_results,        \* the results dict of batch_analyze
    \* ---- history: what _get_or_create_agent did, per agent type ----
    route_calls,          \* number of llm_router.route_task calls
    constructions,        \* number of agent constructor calls
    \* ---- the aggregator call: its result mapping and what it produced ----
    aggregation

routerVars == <<available_providers, default_provider, default_model,
                cost_optimization>>

coordVars == <<max_workers, agents, op, batch_pc, pipe, task, results,
               batch_results, route_calls, constructions>>

vars == <<available_providers, default_provider, default_model,
          cost_optimization, call, max_workers, agents, op, batch_pc, pipe,
          task, results, batch_results, route_calls, constructions,
          aggregation>>

-----------------------------------------------------------------------------
(* Static tables of MultiLLMRouter *)

\* class TaskComplexity
TaskComplexity == {"simple", "moderate", "complex", "critical"}

\* class LLMProvider, in the order in which _check_available_providers
\* inserts the keys of the availability dict (its iteration order)
ProviderOrder == <<"openai", "anthropic", "groq", "google">>

Providers == {ProviderOrder[i] : i \in 1..Len(ProviderOrder)}

\* max_cost = None / budget = None
NoneCost == -1

COST_MAP ==
    [m \in {"gpt-4o", "gpt-4o-mini", "gpt-3.5-turbo",
            "claude-3-5-sonnet-20241022", "claude-3-5-haiku-20241022",
            "claude-3-opus-20240229", "llama-3.3-70b-versatile",
            "llama-3.1-8b-instant", "gemini-2.0-flash-exp", "gemini-1.5-pro"} |->
        CASE m = "gpt-4o"                     -> [input |-> 2500,  output |-> 10000]
          [] m = "gpt-4o-mini"                -> [input |-> 150,   output |-> 600]
          [] m = "gpt-3.5-turbo"              -> [input |-> 500,   output |-> 1500]
          [] m = "claude-3-5-sonnet-20241022" -> [input |-> 3000,  output |-> 15000]
          [] m = "claude-3-5-haiku-20241022"  -> [input |-> 800,   output |-> 4000]
          [] m = "claude-3-opus-20240229"     -> [input |-> 15000, output |-> 75000]
          [] m = "llama-3.3-70b-versatile"    -> [input |-> 590,   output |-> 790]
          [] m = "llama-3.1-8b-instant"       -> [input |-> 50,    output |-> 80]
          [] m = "gemini-2.0-flash-exp"       -> [input |-> 0,     output |-> 0]
          [] m = "gemini-1.5-pro"             -> [input |-> 1250,  output |-> 5000]]

COMPLEXITY_MODELS ==
    [t \in TaskComplexity |->
        CASE t = "simple"   -> << <<"groq", "llama-3.1-8b-instant">>,
                                  <<"google", "gemini-2.0-flash-exp">>,
                                  <<"openai", "gpt-4o-mini">> >>
          [] t = "moderate" -> << <<"openai", "gpt-4o-mini">>,
                                  <<"google", "gemini-2.0-flash-exp">>,
                                  <<"anthropic", "claude-3-5-haiku-20241022">>,
                                  <<"groq", "llama-3.3-70b-versatile">> >>
          [] t = "complex"  -> << <<"openai", "gpt-4o">>,
                                  <<"anthropic", "claude-3-5-sonnet-20241022">>,
                                  <<"google", "gemini-1.5-pro">> >>
          [] t = "critical" -> << <<"anthropic", "claude-3-opus-20240229">>,
                                  <<"openai", "gpt-4o">>,
                                  <<"anthropic", "claude-3-5-sonnet-20241022">> >>]

-----------------------------------------------------------------------------
(* Results of a router call *)

Ok(provider, model, via) ==
    [kind |-> "ok", provider |-> provider, model |-> model, via |-> via]

Raise(error) ==
    [kind |-> "raise", provider |-> "", model |-> "", via |-> error]

NoCall ==
    [op |-> "none", complexity |-> "", task_type |-> "", max_cost |-> NoneCost,
     result |-> Raise("")]

-----------------------------------------------------------------------------
(* MultiLLMRouter methods *)

\* Faulty variant of IsAvailable: the availability map is not consulted
IsAvailableAlways(provider) == TRUE

\* self.available_providers.get(provider, False)
IsAvailable(provider) ==
    IF provider \in DOMAIN available_providers
    THEN available_providers[provider]
    ELSE FALSE

\* (model_cost.get("input", 0) + model_cost.get("output", 0)) / 2,
\* with model_cost = COST_MAP.get(model, {})
AvgCost(model) ==
    IF model \in DOMAIN COST_MAP
    THEN (COST_MAP[model].input + COST_MAP[model].output) \div 2
    ELSE 0

\* _create_llm raises ValueError for a provider it has no client for
CreateLlmRaises(provider) == provider \notin {"openai", "anthropic", "groq", "google"}

\* Faulty variant of OverrideApplies: the override is honoured only when it
\* is one of the candidates of the tier
OverrideAppliesWhenInTier(complexity) ==
    /\ default_provider # ""
    /\ default_model # ""
    /\ IsAvailable(default_provider)
    /\ \E i \in 1..Len(COMPLEXITY_MODELS[complexity]) :
          COMPLEXITY_MODELS[complexity][i] = <<default_provider, default_model>>

\* "if self.default_provider and self.default_model:" followed by the
\* availability lookup of the default provider
OverrideApplies(complexity) ==
    /\ default_provider # ""
    /\ default_model # ""
    /\ IsAvailable(default_provider)

\* "if max_cost and self.cost_optimization:" ... "if avg_cost > max_cost: continue"
\* (None and 0 are both falsy)
CostSkip(model, max_cost) ==
    /\ max_cost # NoneCost
    /\ max_cost # 0
    /\ cost_optimization
    /\ AvgCost(model) > max_cost

\* "if budget:" ... "if avg_cost > budget: continue" of recommend_model
BudgetSkip(model, budget) ==
    /\ budget # NoneCost
    /\ budget # 0
    /\ AvgCost(model) > budget

\* fallback_map.get(provider, "gpt-4o-mini")
get_fallback_model(provider) ==
    CASE provider = "openai"    -> "gpt-4o-mini"
      [] provider = "anthropic" -> "claude-3-5-haiku-20241022"
      [] provider = "groq"      -> "llama-3.1-8b-instant"
      [] provider = "google"    -> "gemini-2.0-flash-exp"
      [] OTHER                  -> "gpt-4o-mini"

\* Faulty variant of FallbackOrder: the scan stops before the last provider
FallbackOrderWithoutLast == SubSeq(ProviderOrder, 1, Len(ProviderOrder) - 1)

\* Faulty variant of FallbackOrder: the scan runs in the opposite order
FallbackOrderReversed ==
    [i \in 1..Len(ProviderOrder) |-> ProviderOrder[Len(ProviderOrder) + 1 - i]]

\* The providers the fallback loop visits: the items of available_providers
FallbackOrder == ProviderOrder

RECURSIVE FallbackLoop(_)
\* "for provider, available in self.available_providers.items():" from the
\* i-th item on; falls out of the loop into the final raise
FallbackLoop(i) ==
    IF i > Len(FallbackOrder)
    THEN Raise("no_provider")
    ELSE LET provider == FallbackOrder[i] IN
         IF IsAvailable(provider) /\ ~CreateLlmRaises(provider)
         THEN Ok(provider, get_fallback_model(provider), "fallback")
         ELSE FallbackLoop(i + 1)

RECURSIVE TierLoop(_, _, _)
\* "for provider, model in recommended_models:" from the i-th candidate on
TierLoop(cands, i, max_cost) ==
    IF i > Len(cands)
    THEN FallbackLoop(1)
    ELSE LET provider == cands[i][1]
             model    == cands[i][2]
         IN  IF ~IsAvailable(provider) THEN TierLoop(cands, i + 1, max_cost)
             ELSE IF CostSkip(model, max_cost) THEN TierLoop(cands, i + 1, max_cost)
             ELSE IF CreateLlmRaises(provider) THEN TierLoop(cands, i + 1, max_cost)
             ELSE Ok(provider, model, "tier")

\* COMPLEXITY_MODELS.get(complexity, [])
RecommendedModels(complexity) ==
    IF complexity \in DOMAIN COMPLEXITY_MODELS
    THEN COMPLEXITY_MODELS[complexity]
    ELSE << >>

route_task(complexity, max_cost) ==
    IF OverrideApplies(complexity)
    THEN IF CreateLlmRaises(default_provider)
         THEN Raise("create_llm")
         ELSE Ok(default_provider, default_model, "override")
    ELSE TierLoop(RecommendedModels(complexity), 1, max_cost)

\* task_complexity_map.get(task_type, TaskComplexity.MODERATE)
TaskTypeComplexity(task_type) ==
    CASE task_type = "quick_lookup"  -> "simple"
      [] task_type = "screening"     -> "simple"
      [] task_type = "comparison"    -> "moderate"
      [] task_type = "analysis"      -> "complex"
      [] task_type = "deep_analysis" -> "critical"
      [] OTHER                       -> "moderate"

RECURSIVE RecommendFallback(_)
RecommendFallback(i) ==
    IF i > Len(ProviderOrder)
    THEN Raise("no_suitable_model")
    ELSE IF IsAvailable(ProviderOrder[i])
         THEN Ok(ProviderOrder[i], get_fallback_model(ProviderOrder[i]), "fallback")
         ELSE RecommendFallback(i + 1)

RECURSIVE RecommendLoop(_, _, _)
RecommendLoop(cands, i, budget) ==
    IF i > Len(cands)
    THEN RecommendFallback(1)
    ELSE IF ~IsAvailable(cands[i][1]) THEN RecommendLoop(cands, i + 1, budget)
         ELSE IF BudgetSkip(cands[i][2], budget) THEN RecommendLoop(cands, i + 1, budget)
         ELSE Ok(cands[i][1], cands[i][2], "tier")

recommend_model(task_type, budget) ==
    RecommendLoop(RecommendedModels(TaskTypeComplexity(task_type)), 1, budget)

\* A returned number / a raised exception
Value(amount) == [kind |-> "ok", value |-> amount]

Raised == [kind |-> "raise", value |-> 0]

\* Faulty variant of CostsOf: a model missing from the table is a KeyError
CostsOfListed(model) ==
    IF model \in DOMAIN COST_MAP
    THEN [found |-> TRUE, input |-> COST_MAP[model].input,
          output |-> COST_MAP[model].output]
    ELSE [found |-> FALSE, input |-> 0, output |-> 0]

\* self.COST_MAP.get(model, {"input": 0, "output": 0})
CostsOf(model) ==
    IF model \in DOMAIN COST_MAP
    THEN [found |-> TRUE, input |-> COST_MAP[model].input,
          output |-> COST_MAP[model].output]
    ELSE [found |-> TRUE, input |-> 0, output |-> 0]

\* estimate_cost(provider, model, input_tokens, output_tokens) with the token
\* counts in thousands of tokens and the result in millionths of a USD:
\* (thousands * 1000 / 1_000_000) * (thousandths / 1000)
estimate_cost(provider, model, input_tokens, output_tokens) ==
    LET costs == CostsOf(model)
    IN  IF ~costs.found
        THEN Raised
        ELSE Value(input_tokens * costs.input + output_tokens * costs.output)

\* sum(self.COMPLEXITY_MODELS.values(), []): the tier lists, concatenated in
\* the order of the dict
TierPairs ==
    COMPLEXITY_MODELS["simple"] \o COMPLEXITY_MODELS["moderate"]
        \o COMPLEXITY_MODELS["complex"] \o COMPLEXITY_MODELS["critical"]

RECURSIVE ModelsIn(_, _)
\* [model for p, model in pairs if p == provider]
ModelsIn(pairs, provider) ==
    IF pairs = << >> THEN << >>
    ELSE IF Head(pairs)[1] = provider
    THEN <<Head(pairs)[2]>> \o ModelsIn(Tail(pairs), provider)
    ELSE ModelsIn(Tail(pairs), provider)

\* Faulty variant of ListOfSet: the list is returned as collected
ListAsCollected(models) == {models}

\* list(set(models)): the distinct elements, in the order the hash set
\* yields them, which differs from run to run
ListOfSet(models) ==
    LET distinct == {models[i] : i \in 1..Len(models)}
    IN  {l \in [1..Cardinality(distinct) -> distinct] :
            \A i, j \in 1..Cardinality(distinct) : i # j => l[i] # l[j]}

\* The lists get_available_models can store for the i-th provider
ListsOf(i) == ListOfSet(ModelsIn(TierPairs, ProviderOrder[i]))

\* The mappings get_available_models can return: an entry for every
\* provider of the availability dict that is available
get_available_models ==
    {[p \in {q \in Providers : IsAvailable(q)} |->
          lists[CHOOSE i \in 1..Len(ProviderOrder) : ProviderOrder[i] = p]] :
        lists \in ListsOf(1) \X ListsOf(2) \X ListsOf(3) \X ListsOf(4)}

-----------------------------------------------------------------------------
(* TaskCoordinator *)

\* Largest number of assets given to one call, largest max_workers tried
NumTickers == 2

MaxWorkers == 2

\* max_workers: int = 4
DefaultMaxWorkers == 4

Assets == 1..NumTickers

\* The agent types _get_or_create_agent and _execute_agent_task dispatch on
AgentTypes == {"stock_analyst", "crypto_analyst", "technical", "fundamental"}

\* The tasks list of analyze_stock_comprehensive
StockTasks(include_fundamental, include_technical) ==
    (IF include_fundamental THEN <<"fundamental">> ELSE << >>)
        \o (IF include_technical THEN <<"technical">> ELSE << >>)
        \o <<"stock_analyst">>

\* The tasks list of analyze_crypto_comprehensive
CryptoTasks(include_technical) ==
    <<"crypto_analyst">> \o (IF include_technical THEN <<"technical">> ELSE << >>)

\* The tasks list of the call in progress (the same for every asset)
Tasks ==
    IF op.asset_type = "stock"
    THEN StockTasks(op.include_fundamental, op.include_technical)
    ELSE IF op.asset_type = "crypto"
    THEN CryptoTasks(op.include_technical)
    ELSE << >>

TaskNames == {Tasks[i] : i \in 1..Len(Tasks)}

\* Position of agent type a in the tasks list
Pos(a) == CHOOSE i \in 1..Len(Tasks) : Tasks[i] = a

NoOp ==
    [kind |-> "none", asset_type |-> "", n |-> 0, include_fundamental |-> TRUE,
     include_technical |-> TRUE, parallel |-> TRUE]

\* No verdict yet
NoVerdict ==
    [kind |-> "none", recommendation |-> "", confidence |-> 0,
     agreement |-> 0, keys |-> {},
     breakdown |-> [BUY |-> 0, SELL |-> 0, HOLD |-> 0]]

\* No summary has been made
NoSummary == [kind |-> "none", text |-> << >>]

\* No aggregator call is in progress
NoAggregation ==
    [op |-> "none", results |-> << >>, verdict |-> NoVerdict,
     summary |-> NoSummary]

\* TaskCoordinator.__init__ with the default router, before any call
CoordinatorIdle ==
    /\ max_workers = DefaultMaxWorkers
    /\ agents = [a \in AgentTypes |-> 0]
    /\ op = NoOp
    /\ batch_pc = "none"
    /\ pipe = [p \in Assets |-> "unused"]
    /\ task = [p \in Assets |-> [a \in AgentTypes |-> [pc |-> "none", agent |-> 0]]]
    /\ results = [p \in Assets |-> [a \in AgentTypes |-> "absent"]]
    /\ batch_results = [p \in Assets |-> "absent"]
    /\ route_calls = [a \in AgentTypes |-> 0]
    /\ constructions = [a \in AgentTypes |-> 0]

\* Faulty variant of PoolHasIdleWorker: the sub-tasks are submitted to the
\* executor of batch_analyze, whose workers the asset pipelines occupy
PoolSharedWithBatch(n_running) ==
    n_running + Cardinality({p \in DOMAIN pipe :
                                pipe[p] \in {"submit", "collect", "aggregate"}})
        < max_workers

\* Faulty variant of PoolHasIdleWorker: one thread per submitted work item
PoolUnbounded(n_running) == TRUE

\* ThreadPoolExecutor(max_workers=self.max_workers): a queued work item is
\* taken only by a worker thread that is not running another one
PoolHasIdleWorker(n_running) == n_running < max_workers

\* The sub-tasks of asset p that a worker thread is executing
Executing(p) == {a \in AgentTypes : task[p][a].pc \in {"create", "call"}}

\* The sub-tasks of asset p that have settled (returned or raised)
Settled(p) == {a \in AgentTypes : task[p][a].pc \in {"returned", "raised"}}

\* The assets whose analyze_*_comprehensive call occupies a batch worker
RunningPipes ==
    {p \in Assets : pipe[p] \in {"submit", "collect", "sequential", "aggregate"}}

\* The agent constructors raise ValueError for any provider other than
\* openai, anthropic and groq (_initialize_llm of the four agent classes)
AgentInitRaises(provider) == provider \notin {"openai", "anthropic", "groq"}

\* Faulty variant of Stored: the exception of a failed sub-task is lost
StoredAsResult(pc) == "result"

\* What the try/except around future.result() / _execute_agent_task stores
Stored(pc) == IF pc = "raised" THEN "error" ELSE "result"

\* Faulty variant of AllCollected: the return sits inside the loop
SomeCollected(p) == \E a \in TaskNames : results[p][a] # "absent"

\* Faulty variant of AllCollected: the collecting loop ends with the entry of
\* the last task of the list
LastCollected(p) ==
    Tasks = << >> \/ results[p][Tasks[Len(Tasks)]] # "absent"

\* as_completed(future_to_task) is exhausted, or the for loop of
\* _execute_sequential is over: every task of the list has its entry
AllCollected(p) == \A a \in TaskNames : results[p][a] # "absent"

\* Leaving "with ThreadPoolExecutor(...)" waits for every submitted work item
\* (shutdown(wait=True)); in _execute_sequential every call has returned
PoolShutDown(p) == \A a \in TaskNames : a \in Settled(p)

\* analyze_stock_comprehensive / analyze_crypto_comprehensive is entered:
\* it builds its tasks list
EnterPipeline(p) ==
    task' = [task EXCEPT ![p] =
                [a \in AgentTypes |->
                    IF a \in TaskNames THEN [pc |-> "pending", agent |-> 0]
                    ELSE task[p][a]]]

\* _execute_agent_task calls _get_or_create_agent, which looks the agent
\* type up in self.agents
EnterAgentTask(p, a) ==
    task' = [task EXCEPT ![p][a] =
                IF agents[a] # 0
                THEN [pc |-> "call", agent |-> agents[a]]
                ELSE [pc |-> "create", agent |-> 0]]

\* _execute_parallel: executor.submit of the next task of the list
SubmitTask(p) ==
    /\ pipe[p] = "submit"
    /\ \E a \in TaskNames :
        /\ task[p][a].pc = "pending"
        /\ \A b \in TaskNames : Pos(b) < Pos(a) => task[p][b].pc # "pending"
        /\ task' = [task EXCEPT ![p][a].pc = "queued"]
        /\ pipe' = [pipe EXCEPT ![p] =
                      IF Pos(a) = Len(Tasks) THEN "collect" ELSE "submit"]
    /\ UNCHANGED <<routerVars, call, aggregation,
                   max_workers, agents, op, batch_pc, results,
                   batch_results, route_calls, constructions>>

\* A worker thread of the pool of asset p takes the oldest queued sub-task
\* and runs _execute_agent_task up to the cache lookup
StartTask(p, a) ==
    /\ pipe[p] \in {"submit", "collect"}
    /\ task[p][a].pc = "queued"
    /\ \A b \in TaskNames : Pos(b) < Pos(a) => task[p][b].pc # "queued"
    /\ PoolHasIdleWorker(Cardinality(Executing(p)))
    /\ EnterAgentTask(p, a)
    /\ UNCHANGED <<routerVars, call, aggregation,
                   max_workers, agents, op, batch_pc, pipe,
                   results, batch_results, route_calls, constructions>>

\* _execute_sequential: the loop calls _execute_agent_task for the next task
\* once the entry of the previous one is stored
StartSequential(p, a) ==
    /\ pipe[p] = "sequential"
    /\ task[p][a].pc = "pending"
    /\ \A b \in TaskNames : Pos(b) < Pos(a) => results[p][b] # "absent"
    /\ EnterAgentTask(p, a)
    /\ UNCHANGED <<routerVars, call, aggregation,
                   max_workers, agents, op, batch_pc, pipe,
                   results, batch_results, route_calls, constructions>>

\* _get_or_create_agent after a cache miss: route_task, the agent
\* constructor, and the store into self.agents
CreateAgent(p, a) ==
    /\ task[p][a].pc = "create"
    /\ LET r == route_task("moderate", NoneCost) IN
        /\ route_calls' = [route_calls EXCEPT ![a] = @ + 1]
        /\ IF r.kind = "raise"
           THEN /\ task' = [task EXCEPT ![p][a].pc = "raised"]
                /\ UNCHANGED <<agents, constructions>>
           ELSE /\ constructions' = [constructions EXCEPT ![a] = @ + 1]
                /\ IF AgentInitRaises(r.provider)
                   THEN /\ task' = [task EXCEPT ![p][a].pc = "raised"]
                        /\ UNCHANGED agents
                   ELSE /\ agents' = [agents EXCEPT ![a] = p]
                        /\ task' = [task EXCEPT ![p][a] = [pc |-> "call", agent |-> p]]
    /\ UNCHANGED <<routerVars, call, aggregation,
                   max_workers, op, batch_pc, pipe, results,
                   batch_results>>

\* The agent method (analyze_stock, analyze_crypto, analyze_technical,
\* analyze_fundamentals) returns its result or raises
AgentCall(p, a) ==
    /\ task[p][a].pc = "call"
    /\ \/ task' = [task EXCEPT ![p][a].pc = "returned"]
       \/ task' = [task EXCEPT ![p][a].pc = "raised"]
    /\ UNCHANGED <<routerVars, call, aggregation,
                   max_workers, agents, op, batch_pc, pipe,
                   results, batch_results, route_calls, constructions>>

\* The body of "for future in as_completed(...)" for a finished future, or the
\* try/except of _execute_sequential: the entry of the task is stored
Collect(p, a) ==
    /\ pipe[p] \in {"collect", "sequential"}
    /\ a \in Settled(p)
    /\ results[p][a] = "absent"
    /\ results' = [results EXCEPT ![p][a] = Stored(task[p][a].pc)]
    /\ UNCHANGED <<routerVars, call, aggregation,
                   max_workers, agents, op, batch_pc, pipe,
                   task, batch_results, route_calls, constructions>>

\* _execute_parallel / _execute_sequential returns results
ReturnResults(p) ==
    /\ pipe[p] \in {"collect", "sequential"}
    /\ AllCollected(p)
    /\ PoolShutDown(p)
    /\ pipe' = [pipe EXCEPT ![p] = "aggregate"]
    /\ UNCHANGED <<routerVars, call, aggregation,
                   max_workers, agents, op, batch_pc, task,
                   results, batch_results, route_calls, constructions>>

\* Faulty variant of AggregateMayRaise: the reduction reads the payload of
\* failed entries too
AggregateMayRaiseOnErrors(p) == TRUE

\* _create_summary and _determine_consensus only read the "analysis" of an
\* entry without "error": they can raise (analysis.split, analysis.upper on
\* a payload that is no string) only when a successful entry exists
AggregateMayRaise(p) == \E a \in TaskNames : results[p][a] = "result"

\* _aggregate_stock_results / _aggregate_crypto_results: returns the record,
\* or raises when a successful entry carries an analysis that is no string
Aggregate(p) ==
    /\ pipe[p] = "aggregate"
    /\ \/ pipe' = [pipe EXCEPT ![p] = "returned"]
       \/ /\ AggregateMayRaise(p)
          /\ pipe' = [pipe EXCEPT ![p] = "raised"]
    /\ UNCHANGED <<routerVars, call, aggregation,
                   max_workers, agents, op, batch_pc, task,
                   results, batch_results, route_calls, constructions>>

\* batch_analyze: the loop over tickers submits the next asset, or skips
\* it when the asset type is neither stock nor crypto
BatchSubmit ==
    /\ batch_pc = "submit"
    /\ \E p \in 1..op.n :
        /\ pipe[p] = "unsubmitted"
        /\ \A q \in 1..(p - 1) : pipe[q] # "unsubmitted"
        /\ pipe' = [pipe EXCEPT ![p] =
                      IF op.asset_type \in {"stock", "crypto"}
                      THEN "queued" ELSE "skipped"]
        /\ batch_pc' = IF p = op.n THEN "collect" ELSE "submit"
    /\ UNCHANGED <<routerVars, call, aggregation,
                   max_workers, agents, op, task, results,
                   batch_results, route_calls, constructions>>

\* A worker thread of the batch pool takes the oldest queued asset and
\* enters analyze_*_comprehensive (parallel=True by default)
BatchStart(p) ==
    /\ pipe[p] = "queued"
    /\ \A q \in 1..(p - 1) : pipe[q] # "queued"
    /\ PoolHasIdleWorker(Cardinality(RunningPipes))
    /\ pipe' = [pipe EXCEPT ![p] = "submit"]
    /\ EnterPipeline(p)
    /\ UNCHANGED <<routerVars, call, aggregation,
                   max_workers, agents, op, batch_pc, results,
                   batch_results, route_calls, constructions>>

\* Faulty variant of BatchStored: the exception of a failed asset is lost
BatchStoredAsRecord(pc) == "record"

\* What the try/except around future.result() of batch_analyze stores
BatchStored(pc) == IF pc = "raised" THEN "error" ELSE "record"

\* len(results) of the record batch_analyze returns
total_analyzed == Cardinality({p \in Assets : batch_results[p] # "absent"})

\* batch_analyze: the body of "for future in as_completed(...)"
BatchCollect(p) ==
    /\ batch_pc = "collect"
    /\ pipe[p] \in {"returned", "raised"}
    /\ batch_results[p] = "absent"
    /\ batch_results' = [batch_results EXCEPT ![p] = BatchStored(pipe[p])]
    /\ UNCHANGED <<routerVars, call, aggregation,
                   max_workers, agents, op, batch_pc, pipe,
                   task, results, route_calls, constructions>>

\* batch_analyze returns its record
BatchReturn ==
    /\ batch_pc = "collect"
    /\ \A p \in 1..op.n : pipe[p] = "skipped" \/ batch_results[p] # "absent"
    /\ batch_pc' = "returned"
    /\ UNCHANGED <<routerVars, call, aggregation,
                   max_workers, agents, op, pipe, task,
                   results, batch_results, route_calls, constructions>>

\* Availability maps the coordinator is run with: no credentials, a provider
\* the agents accept, a provider the agents do not accept
CoordinatorAvailability ==
    { [p \in Providers |-> FALSE],
      [p \in Providers |-> p = "openai"],
      [p \in Providers |-> p = "google"] }

\* An agent left in the cache by an earlier call on the same coordinator
EarlierAgent == NumTickers + 1

\* analyze_stock_comprehensive / analyze_crypto_comprehensive called directly
CallOps ==
    [kind : {"analyze_comprehensive"}, asset_type : {"stock"},
     n : {1}, include_fundamental : BOOLEAN,
     include_technical : BOOLEAN, parallel : BOOLEAN]
    \cup
    [kind : {"analyze_comprehensive"}, asset_type : {"crypto"},
     n : {1}, include_fundamental : {TRUE},
     include_technical : BOOLEAN, parallel : BOOLEAN]

\* batch_analyze(tickers, asset_type) over op.n tickers
BatchOps ==
    [kind : {"batch_analyze"}, asset_type : {"stock", "crypto", "bond"},
     n : 0..NumTickers, include_fundamental : {TRUE},
     include_technical : {TRUE}, parallel : {TRUE}]

\* TaskCoordinator(max_workers=...) with a default MultiLLMRouter()
CoordinatorInit ==
    /\ available_providers \in CoordinatorAvailability
    /\ default_provider = ""
    /\ default_model = ""
    /\ cost_optimization = TRUE
    /\ call = NoCall
    /\ max_workers \in 1..MaxWorkers
    /\ results = [p \in Assets |-> [a \in AgentTypes |-> "absent"]]
    /\ batch_results = [p \in Assets |-> "absent"]
    /\ aggregation = NoAggregation

\* One analyze_*_comprehensive call on a coordinator whose cache may hold
\* agents created by earlier calls
Init ==
    /\ CoordinatorInit
    /\ agents \in [AgentTypes -> {0, EarlierAgent}]
    /\ \A a \in AgentTypes :
          agents[a] # 0 =>
              /\ route_task("moderate", NoneCost).kind = "ok"
              /\ ~AgentInitRaises(route_task("moderate", NoneCost).provider)
    /\ route_calls = [a \in AgentTypes |-> IF agents[a] # 0 THEN 1 ELSE 0]
    /\ constructions = [a \in AgentTypes |-> IF agents[a] # 0 THEN 1 ELSE 0]
    /\ op \in CallOps
    /\ batch_pc = "none"
    /\ pipe = [p \in Assets |->
                 IF p = 1
                 THEN (IF op.parallel THEN "submit" ELSE "sequential")
                 ELSE "unused"]
    /\ task = [p \in Assets |->
                 [a \in AgentTypes |->
                    IF p = 1 /\ a \in TaskNames
                    THEN [pc |-> "pending", agent |-> 0]
                    ELSE [pc |-> "none", agent |-> 0]]]

\* One batch_analyze call on a fresh coordinator
InitBatch ==
    /\ CoordinatorInit
    /\ agents = [a \in AgentTypes |-> 0]
    /\ route_calls = [a \in AgentTypes |-> 0]
    /\ constructions = [a \in AgentTypes |-> 0]
    /\ op \in BatchOps
    /\ batch_pc = (IF op.n = 0 THEN "collect" ELSE "submit")
    /\ pipe = [p \in Assets |-> IF p <= op.n THEN "unsubmitted" ELSE "unused"]
    /\ task = [p \in Assets |-> [a \in AgentTypes |-> [pc |-> "none", agent |-> 0]]]

Next ==
    \E p \in Assets :
        \/ SubmitTask(p)
        \/ ReturnResults(p)
        \/ Aggregate(p)
        \/ \E a \in AgentTypes :
            \/ StartTask(p, a)
            \/ StartSequential(p, a)
            \/ CreateAgent(p, a)
            \/ AgentCall(p, a)
            \/ Collect(p, a)

NextBatch ==
    \/ BatchSubmit
    \/ BatchReturn
    \/ \E p \in Assets :
        \/ BatchStart(p)
        \/ BatchCollect(p)
        \/ SubmitTask(p)
        \/ ReturnResults(p)
        \/ Aggregate(p)
        \/ \E a \in AgentTypes :
            \/ StartTask(p, a)
            \/ CreateAgent(p, a)
            \/ AgentCall(p, a)
            \/ Collect(p, a)

Spec == Init /\ [][Next]_vars

\* The same tasks list given to both executors of a fresh coordinator:
\* run 1 is _execute_parallel, run 2 is _execute_sequential
ParallelRun == 1

SequentialRun == 2

InitExecutors ==
    /\ CoordinatorInit
    /\ agents = [a \in AgentTypes |-> 0]
    /\ route_calls = [a \in AgentTypes |-> 0]
    /\ constructions = [a \in AgentTypes |-> 0]
    /\ op \in {o \in CallOps : o.parallel}
    /\ batch_pc = "none"
    /\ pipe = [p \in Assets |->
                 IF p = ParallelRun THEN "submit"
                 ELSE IF p = SequentialRun THEN "sequential"
                 ELSE "unused"]
    /\ task = [p \in Assets |->
                 [a \in AgentTypes |->
                    IF p \in {ParallelRun, SequentialRun} /\ a \in TaskNames
                    THEN [pc |-> "pending", agent |-> 0]
                    ELSE [pc |-> "none", agent |-> 0]]]

NextExecutors ==
    \E p \in Assets :
        \/ SubmitTask(p)
        \/ ReturnResults(p)
        \/ \E a \in AgentTypes :
            \/ StartTask(p, a)
            \/ StartSequential(p, a)
            \/ CreateAgent(p, a)
            \/ AgentCall(p, a)
            \/ Collect(p, a)

SpecExecutors == InitExecutors /\ [][NextExecutors]_vars

SpecBatch == InitBatch /\ [][NextBatch]_vars

\* A batch of at most one asset, or of more assets than workers
InitBatchFair ==
    /\ InitBatch
    /\ op.n <= 1 \/ max_workers < op.n

\* The batch under the scheduling the runtime provides: a thread that can
\* take a step is eventually scheduled, a pool with an idle worker and a
\* queued work item eventually runs it, and every agent call eventually
\* returns or raises.  As long as some step of the call is possible, one is
\* eventually taken.
SpecBatchFair == InitBatchFair /\ [][NextBatch]_vars /\ WF_vars(NextBatch)

-----------------------------------------------------------------------------
(* Inputs of the router *)

\* Every average cost of COST_MAP and the value just above it: a ceiling
\* is only ever compared with these averages, so these values (with 0 and
\* None) stand for every non-negative ceiling.
CostCeilings ==
    {NoneCost} \cup {AvgCost(m) : m \in DOMAIN COST_MAP}
               \cup {AvgCost(m) + 1 : m \in DOMAIN COST_MAP}

\* (default_provider, default_model) given to __init__
Overrides ==
    { <<"", "">>,
      <<"openai", "gpt-3.5-turbo">>,
      <<"google", "gemini-1.5-pro">>,
      <<"anthropic", "">>,
      <<"azure", "gpt-4o">> }

TaskTypes ==
    {"quick_lookup", "screening", "comparison", "analysis", "deep_analysis",
     "something_else"}

\* MultiLLMRouter.__init__ : the availability map comes from the environment
RouterInit ==
    /\ available_providers \in [Providers -> BOOLEAN]
    /\ \E o \in Overrides : default_provider = o[1] /\ default_model = o[2]
    /\ cost_optimization \in BOOLEAN

CallRouteTask ==
    \E complexity \in TaskComplexity, max_cost \in CostCeilings :
        /\ call' = [op |-> "route_task", complexity |-> complexity,
                    task_type |-> "", max_cost |-> max_cost,
                    result |-> route_task(complexity, max_cost)]
        /\ UNCHANGED <<routerVars, coordVars, aggregation>>

CallRecommendModel ==
    \E task_type \in TaskTypes, budget \in CostCeilings :
        /\ call' = [op |-> "recommend_model",
                    complexity |-> TaskTypeComplexity(task_type),
                    task_type |-> task_type, max_cost |-> budget,
                    result |-> recommend_model(task_type, budget)]
        /\ UNCHANGED <<routerVars, coordVars, aggregation>>

\* The provider and model names given to estimate_cost
EstimateProviders == {"openai", "azure"}

EstimateModels == DOMAIN COST_MAP \cup {"gpt-5"}

\* One million tokens, in thousands of tokens
Million == 1000

\* The token counts given to estimate_cost, in thousands of tokens
TokenCounts == {0, Million, 2500}

CallEstimateCost ==
    \E provider \in EstimateProviders, model \in EstimateModels,
       input_tokens \in TokenCounts, output_tokens \in TokenCounts :
        /\ call' = [op |-> "estimate_cost", provider |-> provider,
                    model |-> model, input_tokens |-> input_tokens,
                    output_tokens |-> output_tokens,
                    result |-> estimate_cost(provider, model, input_tokens,
                                             output_tokens)]
        /\ UNCHANGED <<routerVars, coordVars, aggregation>>

CallGetAvailableModels ==
    \E models \in get_available_models :
        /\ call' = [op |-> "get_available_models", result |-> models]
        /\ UNCHANGED <<routerVars, coordVars, aggregation>>

InitRouter ==
    /\ RouterInit
    /\ call = NoCall
    /\ CoordinatorIdle
    /\ aggregation = NoAggregation

NextRouter ==
    \/ CallRouteTask
    \/ CallRecommendModel

SpecRouter == InitRouter /\ [][NextRouter]_vars

\* MultiLLMRouter() as test_router and list_models construct it: no default
\* provider or model, cost_optimization=True, any credentials
InitDefaultRouter ==
    /\ available_providers \in [Providers -> BOOLEAN]
    /\ default_provider = ""
    /\ default_model = ""
    /\ cost_optimization = TRUE
    /\ call = NoCall
    /\ CoordinatorIdle
    /\ aggregation = NoAggregation

\* The queries that read the tables without choosing a model
NextQueries ==
    \/ CallEstimateCost
    \/ CallGetAvailableModels

SpecQueries == InitDefaultRouter /\ [][NextQueries]_vars

-----------------------------------------------------------------------------
(* Aggregator: TaskCoordinator._determine_consensus *)
(*                                                                         *)
(* A text is the sequence of its characters.  A result mapping is the      *)
(* sequence of its items in iteration order; an item has the name of the   *)
(* sub-task and its entry.  Confidence is counted in tenths, agreement in  *)
(* tenths of a percent: 66.7 is 667.                                       *)

LowerCase ==
    <<"a", "b", "c", "d", "e", "f", "g", "h", "i", "j", "k", "l", "m",
      "n", "o", "p", "q", "r", "s", "t", "u", "v", "w", "x", "y", "z">>

UpperCase ==
    <<"A", "B", "C", "D", "E", "F", "G", "H", "I", "J", "K", "L", "M",
      "N", "O", "P", "Q", "R", "S", "T", "U", "V", "W", "X", "Y", "Z">>

Digits == <<"0", "1", "2", "3", "4", "5", "6", "7", "8", "9">>

\* Position of character c in the sequence cs, 0 when it is not there
IndexIn(cs, c) ==
    IF \E i \in 1..Len(cs) : cs[i] = c
    THEN CHOOSE i \in 1..Len(cs) : cs[i] = c
    ELSE 0

\* str.upper()
Upper(text) ==
    [i \in 1..Len(text) |->
        IF IndexIn(LowerCase, text[i]) # 0
        THEN UpperCase[IndexIn(LowerCase, text[i])]
        ELSE text[i]]

\* str.lower()
Lower(text) ==
    [i \in 1..Len(text) |->
        IF IndexIn(UpperCase, text[i]) # 0
        THEN LowerCase[IndexIn(UpperCase, text[i])]
        ELSE text[i]]

\* text[i:].startswith(word)
StartsAt(word, text, i) ==
    /\ i + Len(word) - 1 <= Len(text)
    /\ SubSeq(text, i, i + Len(word) - 1) = word

\* word in text
Contains(word, text) == \E i \in 1..(Len(text) + 1) : StartsAt(word, text, i)

WordBuy == <<"B", "U", "Y">>

WordSell == <<"S", "E", "L", "L">>

WordHold == <<"H", "O", "L", "D">>

WordConfidence == <<"c", "o", "n", "f", "i", "d", "e", "n", "c", "e">>

\* The characters [:\s] of the pattern
IsSeparator(c) == c \in {":", " ", "\t", "\n"}

\* The characters \d of the pattern
IsDigit(c) == IndexIn(Digits, c) # 0

RECURSIVE SkipSeparators(_, _)
\* [:\s]+ is greedy: the index after the run of separators that starts at i
SkipSeparators(text, i) ==
    IF i <= Len(text) /\ IsSeparator(text[i])
    THEN SkipSeparators(text, i + 1)
    ELSE i

RECURSIVE SkipDigits(_, _)
\* (\d+) is greedy: the index after the run of digits that starts at i
SkipDigits(text, i) ==
    IF i <= Len(text) /\ IsDigit(text[i])
    THEN SkipDigits(text, i + 1)
    ELSE i

\* The pattern confidence[:\s]+(\d+) matches at position i of text
MatchesAt(text, i) ==
    /\ StartsAt(WordConfidence, text, i)
    /\ SkipSeparators(text, i + Len(WordConfidence)) > i + Len(WordConfidence)
    /\ SkipDigits(text, SkipSeparators(text, i + Len(WordConfidence)))
           > SkipSeparators(text, i + Len(WordConfidence))

RECURSIVE ToInt(_)
\* int() of a string of digits
ToInt(digits) ==
    IF digits = << >>
    THEN 0
    ELSE 10 * ToInt(SubSeq(digits, 1, Len(digits) - 1))
             + (IndexIn(Digits, digits[Len(digits)]) - 1)

\* No confidence number was extracted
NoConfidence == -1

\* re.search(r'confidence[:\s]+(\d+)', analysis.lower()) and int(group(1)):
\* the leftmost match, NoConfidence when there is none
ExtractConfidence(analysis) ==
    LET text == Lower(analysis) IN
    IF \E i \in 1..Len(text) : MatchesAt(text, i)
    THEN LET i == CHOOSE k \in 1..Len(text) :
                      /\ MatchesAt(text, k)
                      /\ \A j \in 1..(k - 1) : ~MatchesAt(text, j)
             from == SkipSeparators(text, i + Len(WordConfidence))
         IN  ToInt(SubSeq(text, from, SkipDigits(text, from) - 1))
    ELSE NoConfidence

\* Faulty variant of ExtractSignal: SELL is looked for before BUY
ExtractSignalSellFirst(analysis) ==
    IF Contains(WordSell, Upper(analysis)) THEN "SELL"
    ELSE IF Contains(WordBuy, Upper(analysis)) THEN "BUY"
    ELSE IF Contains(WordHold, Upper(analysis)) THEN "HOLD"
    ELSE "NONE"

\* The if/elif chain on analysis.upper(): what is appended to recommendations
ExtractSignal(analysis) ==
    IF Contains(WordBuy, Upper(analysis)) THEN "BUY"
    ELSE IF Contains(WordSell, Upper(analysis)) THEN "SELL"
    ELSE IF Contains(WordHold, Upper(analysis)) THEN "HOLD"
    ELSE "NONE"

\* An entry {"error": str(e)} stored by the executors for a failed sub-task
ErrorEntry(message) ==
    [error |-> TRUE, message |-> message, has_analysis |-> FALSE,
     is_text |-> FALSE, analysis |-> << >>]

\* An entry returned by an agent: {..., "analysis": response.content}
ResultEntry(analysis) ==
    [error |-> FALSE, message |-> << >>, has_analysis |-> TRUE,
     is_text |-> TRUE, analysis |-> analysis]

\* An entry without "error" and without "analysis"
BareEntry ==
    [error |-> FALSE, message |-> << >>, has_analysis |-> FALSE,
     is_text |-> FALSE, analysis |-> << >>]

\* An entry whose "analysis" is no string but a list of content blocks
NonTextEntry ==
    [error |-> FALSE, message |-> << >>, has_analysis |-> TRUE,
     is_text |-> FALSE, analysis |-> << >>]

\* "if 'error' in result: continue"
Skipped(entry) == entry.error

\* result.get("analysis", "")
AnalysisOf(entry) == IF entry.has_analysis THEN entry.analysis ELSE << >>

\* analysis.upper() raises AttributeError when the payload is no string
UpperRaises(entry) == ~Skipped(entry) /\ entry.has_analysis /\ ~entry.is_text

RECURSIVE recommendationsUntilFailure(_)
\* Faulty variant of recommendations: the loop ends ("break") at the first
\* failed entry instead of passing over it
recommendationsUntilFailure(result_map) ==
    IF result_map = << >> \/ Skipped(Head(result_map).entry)
    THEN << >>
    ELSE LET signal == ExtractSignal(AnalysisOf(Head(result_map).entry))
             rest   == recommendationsUntilFailure(Tail(result_map))
         IN  IF signal = "NONE" THEN rest ELSE <<signal>> \o rest

RECURSIVE recommendations(_)
\* The list recommendations after the loop over results.items()
recommendations(result_map) ==
    IF result_map = << >>
    THEN << >>
    ELSE LET entry == result_map[Len(result_map)].entry
             rest  == recommendations(SubSeq(result_map, 1, Len(result_map) - 1))
         IN  IF Skipped(entry) \/ ExtractSignal(AnalysisOf(entry)) = "NONE"
             THEN rest
             ELSE Append(rest, ExtractSignal(AnalysisOf(entry)))

RECURSIVE confidence_scoresOfTallied(_)
\* Faulty variant of confidence_scores: the number is extracted only in the
\* branches that appended a recommendation
confidence_scoresOfTallied(result_map) ==
    IF result_map = << >>
    THEN << >>
    ELSE LET entry == Head(result_map).entry
             rest  == confidence_scoresOfTallied(Tail(result_map))
         IN  IF \/ Skipped(entry)
                \/ ExtractSignal(AnalysisOf(entry)) = "NONE"
                \/ ExtractConfidence(AnalysisOf(entry)) = NoConfidence
             THEN rest
             ELSE <<ExtractConfidence(AnalysisOf(entry))>> \o rest

RECURSIVE confidence_scores(_)
\* The list confidence_scores after the loop over results.items()
confidence_scores(result_map) ==
    IF result_map = << >>
    THEN << >>
    ELSE LET entry == result_map[Len(result_map)].entry
             rest  == confidence_scores(SubSeq(result_map, 1, Len(result_map) - 1))
         IN  IF Skipped(entry) \/ ExtractConfidence(AnalysisOf(entry)) = NoConfidence
             THEN rest
             ELSE Append(rest, ExtractConfidence(AnalysisOf(entry)))

\* list.count(x)
Count(list, x) == Cardinality({i \in 1..Len(list) : list[i] = x})

RECURSIVE Sum(_)
\* sum(list)
Sum(list) ==
    IF list = << >> THEN 0
    ELSE Sum(SubSeq(list, 1, Len(list) - 1)) + list[Len(list)]

\* max(buy_count, sell_count, hold_count)
Max3(a, b, c) ==
    IF a >= b /\ a >= c THEN a ELSE IF b >= c THEN b ELSE c

\* round(num / den * scale, 1) in tenths, for num, den >= 0 and den > 0:
\* Python rounds a float to the nearest tenth, an exact half to the even one
RoundTenths(num, den) ==
    LET q == (10 * num) \div den
        r == (10 * num) % den
    IN  IF 2 * r < den THEN q
        ELSE IF 2 * r > den THEN q + 1
        ELSE IF q % 2 = 0 THEN q ELSE q + 1

\* The dict returned when recommendations is empty
InsufficientData ==
    [kind |-> "ok", recommendation |-> "INSUFFICIENT_DATA", confidence |-> 0,
     agreement |-> 0, keys |-> {"recommendation", "confidence", "agreement"},
     breakdown |-> [BUY |-> 0, SELL |-> 0, HOLD |-> 0]]

\* The call does not return: analysis.upper() raised
ConsensusRaises ==
    [kind |-> "raise", recommendation |-> "", confidence |-> 0,
     agreement |-> 0, keys |-> {},
     breakdown |-> [BUY |-> 0, SELL |-> 0, HOLD |-> 0]]

\* Faulty variant of Total: the share is taken of all entries that did not fail
TotalOfNonFailed(result_map) ==
    Cardinality({i \in 1..Len(result_map) : ~result_map[i].entry.error})

\* total = len(recommendations)
Total(result_map) == Len(recommendations(result_map))

\* Faulty variant of Majority: a tie for the largest count goes to the first
\* class in the order BUY, SELL, HOLD
MajorityTieToFirst(buy_count, sell_count, hold_count) ==
    IF buy_count >= sell_count /\ buy_count >= hold_count THEN "BUY"
    ELSE IF sell_count >= hold_count THEN "SELL"
    ELSE "HOLD"

\* The if/elif/else chain that picks consensus
Majority(buy_count, sell_count, hold_count) ==
    IF buy_count > sell_count /\ buy_count > hold_count THEN "BUY"
    ELSE IF sell_count > buy_count /\ sell_count > hold_count THEN "SELL"
    ELSE IF hold_count > buy_count /\ hold_count > sell_count THEN "HOLD"
    ELSE "MIXED"

\* Faulty variant of AgreementCount: the BUY count is divided in every branch
AgreementCountOfBuy(consensus, buy_count, sell_count, hold_count) == buy_count

\* The count that is divided by total in the branch taken
AgreementCount(consensus, buy_count, sell_count, hold_count) ==
    CASE consensus = "BUY"  -> buy_count
      [] consensus = "SELL" -> sell_count
      [] consensus = "HOLD" -> hold_count
      [] OTHER              -> Max3(buy_count, sell_count, hold_count)

\* Faulty variant of EmptyVerdict: the early return is missing, the counts
\* of an empty list are reported as a tie
EmptyVerdictMixed ==
    [kind |-> "ok", recommendation |-> "MIXED", confidence |-> 50,
     agreement |-> 0,
     keys |-> {"recommendation", "confidence", "agreement", "breakdown"},
     breakdown |-> [BUY |-> 0, SELL |-> 0, HOLD |-> 0]]

\* "if not recommendations: return {...}"
EmptyVerdict == InsufficientData

\* TaskCoordinator._determine_consensus(results)
determine_consensus(result_map) ==
    IF \E i \in 1..Len(result_map) : UpperRaises(result_map[i].entry)
    THEN ConsensusRaises
    ELSE IF recommendations(result_map) = << >>
    THEN EmptyVerdict
    ELSE LET buy_count  == Count(recommendations(result_map), "BUY")
             sell_count == Count(recommendations(result_map), "SELL")
             hold_count == Count(recommendations(result_map), "HOLD")
             total      == Total(result_map)
             consensus  == Majority(buy_count, sell_count, hold_count)
             scores     == confidence_scores(result_map)
         IN  [kind |-> "ok",
              recommendation |-> consensus,
              confidence |-> IF scores # << >>
                             THEN RoundTenths(Sum(scores), Len(scores))
                             ELSE 50,
              agreement |-> RoundTenths(
                                100 * AgreementCount(consensus, buy_count,
                                                     sell_count, hold_count),
                                total),
              keys |-> {"recommendation", "confidence", "agreement",
                        "breakdown"},
              breakdown |-> [BUY |-> buy_count, SELL |-> sell_count,
                             HOLD |-> hold_count]]

(* TaskCoordinator._create_summary *)

\* The characters of the names the executors key their entries by
NameText(name) ==
    CASE name = "fundamental" ->
             <<"f", "u", "n", "d", "a", "m", "e", "n", "t", "a", "l">>
      [] name = "technical" ->
             <<"t", "e", "c", "h", "n", "i", "c", "a", "l">>
      [] name = "stock_analyst" ->
             <<"s", "t", "o", "c", "k", "_", "a", "n", "a", "l", "y", "s",
               "t">>
      [] name = "crypto_analyst" ->
             <<"c", "r", "y", "p", "t", "o", "_", "a", "n", "a", "l", "y",
               "s", "t">>

\* ": Error - "
ErrorMark == <<":", " ", "E", "r", "r", "o", "r", " ", "-", " ">>

\* ": "
NameMark == <<":", " ">>

\* "No analysis"
NoAnalysisText == <<"N", "o", " ", "a", "n", "a", "l", "y", "s", "i", "s">>

\* The position of the first character c of text, Len(text) + 1 if none
FirstIndexOf(text, c) ==
    IF \E i \in 1..Len(text) : text[i] = c
    THEN CHOOSE i \in 1..Len(text) :
             /\ text[i] = c
             /\ \A j \in 1..(i - 1) : text[j] # c
    ELSE Len(text) + 1

\* analysis.split(".")[0] if analysis else "No analysis"
first_sentence(analysis) ==
    IF analysis = << >>
    THEN NoAnalysisText
    ELSE SubSeq(analysis, 1, FirstIndexOf(analysis, ".") - 1)

\* analysis.split raises AttributeError when a non-empty payload is no string
SplitRaises(entry) == ~entry.error /\ entry.has_analysis /\ ~entry.is_text

RECURSIVE summaries(_)
\* The list the loop of _create_summary builds: one string for an entry with
\* "error", one for an entry with "analysis", none for any other entry
summaries(result_map) ==
    IF result_map = << >>
    THEN << >>
    ELSE LET name  == NameText(Head(result_map).name)
             entry == Head(result_map).entry
             rest  == summaries(Tail(result_map))
         IN  IF entry.error
             THEN <<name \o ErrorMark \o entry.message>> \o rest
             ELSE IF entry.has_analysis
             THEN <<name \o NameMark \o first_sentence(entry.analysis)>>
                      \o rest
             ELSE rest

RECURSIVE Join(_)
\* "\n".join(summaries)
Join(strings) ==
    IF strings = << >> THEN << >>
    ELSE IF Len(strings) = 1 THEN Head(strings)
    ELSE Head(strings) \o <<"\n">> \o Join(Tail(strings))

\* The outcome of self._create_summary(results): the text, or the exception
create_summary(result_map) ==
    IF \E i \in 1..Len(result_map) : SplitRaises(result_map[i].entry)
    THEN [kind |-> "raise", text |-> << >>]
    ELSE [kind |-> "ok", text |-> Join(summaries(result_map))]

(* Inputs of the aggregator *)

\* Largest number of entries of a result mapping
MaxEntries == 3

\* "Strong Buy. Confidence: 8" (mixed case, a confidence number)
TextStrongBuy ==
    <<"S", "t", "r", "o", "n", "g", " ", "B", "u", "y", ".", " ",
      "C", "o", "n", "f", "i", "d", "e", "n", "c", "e", ":",
      " ", "8">>

\* "buy or sell, confidence: 6" (names two classes)
TextBuyOrSell ==
    <<"b", "u", "y", " ", "o", "r", " ", "s", "e", "l", "l", ",",
      " ", "c", "o", "n", "f", "i", "d", "e", "n", "c", "e",
      ":", " ", "6">>

\* "SELL" (a bare signal)
TextSell ==
    <<"S", "E", "L", "L">>

\* "Sell or hold; confidence 12" (two classes, a number above 10)
TextSellOrHold ==
    <<"S", "e", "l", "l", " ", "o", "r", " ", "h", "o", "l", "d",
      ";", " ", "c", "o", "n", "f", "i", "d", "e", "n", "c",
      "e", " ", "1", "2">>

\* "hold" (lower case)
TextHold ==
    <<"h", "o", "l", "d">>

\* "Neutral. confidence: 9" (no signal, a confidence number)
TextConfidenceOnly ==
    <<"N", "e", "u", "t", "r", "a", "l", ".", " ", "c", "o", "n",
      "f", "i", "d", "e", "n", "c", "e", ":", " ", "9">>

\* "Outlook:\nHold. Confidence: 7" (a heading line before the first sentence)
TextTwoLines ==
    <<"O", "u", "t", "l", "o", "o", "k", ":", "\n", "H", "o", "l", "d", ".",
      " ", "C", "o", "n", "f", "i", "d", "e", "n", "c", "e", ":", " ", "7">>

\* "" (the empty payload)
TextEmpty ==
    << >>

\* "no BUY data" (the message of a failed sub-task)
TextErrorMessage ==
    <<"n", "o", " ", "B", "U", "Y", " ", "d", "a", "t", "a">>

\* The payloads the entries are drawn from
Texts ==
    {TextStrongBuy, TextBuyOrSell, TextSell, TextSellOrHold, TextHold,
     TextConfidenceOnly, TextEmpty}

\* The entries a result mapping is drawn from
Entries ==
    {ErrorEntry(TextErrorMessage), BareEntry, NonTextEntry}
        \cup {ResultEntry(t) : t \in Texts}

\* The names the executors key their entries by, in the order in which the
\* entries were stored; the aggregator reads the entries, never the names
EntryNames == <<"fundamental", "technical", "stock_analyst", "crypto_analyst">>

\* Every result mapping of at most MaxEntries items (with distinct names)
ResultMappings ==
    UNION {
        {[i \in 1..n |-> [name |-> EntryNames[i], entry |-> es[i]]] :
            es \in [1..n -> Entries]}
        : n \in 0..MaxEntries}

\* self._determine_consensus(results) is called and returns or raises
CallDetermineConsensus ==
    /\ aggregation.op = "pending"
    /\ aggregation' = [aggregation EXCEPT
                          !.op = "determine_consensus",
                          !.verdict = determine_consensus(aggregation.results)]
    /\ UNCHANGED <<routerVars, call, max_workers, agents, op, batch_pc, pipe,
                   task, results, batch_results, route_calls, constructions>>

\* self._create_summary(results) is called and returns or raises
CallCreateSummary ==
    /\ aggregation.op = "pending"
    /\ aggregation' = [aggregation EXCEPT
                          !.op = "create_summary",
                          !.summary = create_summary(aggregation.results)]
    /\ UNCHANGED <<routerVars, call, max_workers, agents, op, batch_pc, pipe,
                   task, results, batch_results, route_calls, constructions>>

\* A coordinator about to reduce a result mapping
InitAggregator ==
    /\ available_providers = [p \in Providers |-> FALSE]
    /\ default_provider = ""
    /\ default_model = ""
    /\ cost_optimization = TRUE
    /\ call = NoCall
    /\ CoordinatorIdle
    /\ \E m \in ResultMappings :
          aggregation = [op |-> "pending", results |-> m,
                         verdict |-> NoVerdict, summary |-> NoSummary]

NextAggregator == CallDetermineConsensus

SpecAggregator == InitAggregator /\ [][NextAggregator]_vars

\* The orders in which n sub-tasks can complete
Orders(n) ==
    {f \in [1..n -> 1..n] : \A i, j \in 1..n : i # j => f[i] # f[j]}

\* The mapping of _execute_parallel: the entries of result_map, inserted in
\* the order f in which the futures complete
StoredInOrder(result_map, f) ==
    [i \in 1..Len(result_map) |-> result_map[f[i]]]

\* A coordinator about to reduce a result mapping that _execute_parallel
\* filled in some completion order
InitCompletionOrders ==
    /\ available_providers = [p \in Providers |-> FALSE]
    /\ default_provider = ""
    /\ default_model = ""
    /\ cost_optimization = TRUE
    /\ call = NoCall
    /\ CoordinatorIdle
    /\ \E m \in ResultMappings :
          \E f \in Orders(Len(m)) :
              aggregation = [op |-> "pending",
                             results |-> StoredInOrder(m, f),
                             verdict |-> NoVerdict, summary |-> NoSummary]

NextCompletionOrders == CallDetermineConsensus

SpecCompletionOrders == InitCompletionOrders /\ [][NextCompletionOrders]_vars

\* The payloads the entries of a summarised mapping are drawn from
SummaryTexts == {TextStrongBuy, TextSell, TextTwoLines, TextEmpty}

\* The entries a summarised mapping is drawn from
SummaryEntries ==
    {ErrorEntry(TextErrorMessage), BareEntry, NonTextEntry}
        \cup {ResultEntry(t) : t \in SummaryTexts}

\* Every summarised mapping of at most MaxEntries items
SummaryMappings ==
    UNION {
        {[i \in 1..n |-> [name |-> EntryNames[i], entry |-> es[i]]] :
            es \in [1..n -> SummaryEntries]}
        : n \in 0..MaxEntries}

\* A coordinator about to summarise a result mapping
InitSummary ==
    /\ available_providers = [p \in Providers |-> FALSE]
    /\ default_provider = ""
    /\ default_model = ""
    /\ cost_optimization = TRUE
    /\ call = NoCall
    /\ CoordinatorIdle
    /\ \E m \in SummaryMappings :
          aggregation = [op |-> "pending", results |-> m,
                         verdict |-> NoVerdict, summary |-> NoSummary]

NextSummary == CallCreateSummary

SpecSummary == InitSummary /\ [][NextSummary]_vars

-----------------------------------------------------------------------------
(* Properties of the router, checked under SpecRouter *)

IsRouteCall == call.op = "route_task"

SomeProviderAvailable == \E p \in Providers : available_providers[p]

\* The override the router was constructed with is usable
OverrideGiven ==
    /\ default_provider # ""
    /\ default_model # ""
    /\ default_provider \in Providers
    /\ available_providers[default_provider]

\* The ranked candidates of the tier of the last call
Candidates == COMPLEXITY_MODELS[call.complexity]

\* C3: every (provider, model) pair that route_task or recommend_model
\* returns, for every tier, availability map, ceiling and override, names a
\* provider that the availability map marks available.
C3_ReturnedProviderAvailable ==
    (call.op \in {"route_task", "recommend_model"} /\ call.result.kind = "ok")
        => /\ call.result.provider \in Providers
           /\ available_providers[call.result.provider]

\* C3 witness: route_task returned from the fallback scan after passing over
\* an unavailable provider.
C3_Witness ==
    /\ IsRouteCall
    /\ call.result.kind = "ok"
    /\ call.result.via = "fallback"
    /\ ~available_providers["openai"]
    /\ call.max_cost # NoneCost

\* C4: for every tier, availability map and cost ceiling >= 0, the tier
\* iteration of route_task never selects a candidate whose average cost
\* (input + output) / 2 exceeds the ceiling.  Stated here for routers with
\* cost optimisation switched on (the constructor's default).
C4_TierNeverExceedsCeiling ==
    (/\ IsRouteCall
     /\ cost_optimization
     /\ call.max_cost # NoneCost
     /\ call.max_cost >= 0
     /\ call.result.kind = "ok"
     /\ call.result.via = "tier")
        => AvgCost(call.result.model) <= call.max_cost

\* A candidate of the tier list is eligible when its provider is available
\* and, if a ceiling is given, its average cost does not exceed the ceiling.
Eligible(i) ==
    /\ available_providers[Candidates[i][1]]
    /\ call.max_cost # NoneCost => AvgCost(Candidates[i][2]) <= call.max_cost

\* C5: when no override applies, route_task returns the first candidate of
\* the tier's ranked list that is eligible; no eligible earlier candidate is
\* skipped for a later one.  Stated here for routers with cost optimisation
\* switched on (the constructor's default).
C5_FirstEligibleCandidate ==
    (/\ IsRouteCall
     /\ cost_optimization
     /\ ~OverrideGiven
     /\ \E i \in 1..Len(Candidates) : Eligible(i))
        => \E i \in 1..Len(Candidates) :
              /\ Eligible(i)
              /\ \A j \in 1..(i - 1) : ~Eligible(j)
              /\ call.result.kind = "ok"
              /\ call.result.provider = Candidates[i][1]
              /\ call.result.model = Candidates[i][2]

\* C6: a router constructed with an explicit (provider, model) override
\* whose provider is available returns exactly that pair from route_task,
\* for every tier and every ceiling.
C6_OverrideWins ==
    (IsRouteCall /\ OverrideGiven)
        => call.result = Ok(default_provider, default_model, "override")

\* C6 witness: the override was returned although the pair is no candidate
\* of the tier and its average cost is above the ceiling of the call.
C6_Witness ==
    /\ IsRouteCall
    /\ OverrideGiven
    /\ call.result.kind = "ok"
    /\ \A i \in 1..Len(Candidates) :
          Candidates[i] # <<default_provider, default_model>>
    /\ cost_optimization
    /\ call.max_cost > 0
    /\ AvgCost(default_model) > call.max_cost

\* The tier loop of the last call passed over every candidate: each is
\* unavailable or was skipped by the cost check the loop applies.
NoCandidatePasses ==
    \A i \in 1..Len(Candidates) :
        \/ ~available_providers[Candidates[i][1]]
        \/ CostSkip(Candidates[i][2], call.max_cost)

\* The first available provider in registry order
\* (openai, anthropic, groq, google)
FirstAvailable ==
    IF available_providers["openai"] THEN "openai"
    ELSE IF available_providers["anthropic"] THEN "anthropic"
    ELSE IF available_providers["groq"] THEN "groq"
    ELSE "google"

\* The one fixed fallback model of each provider
FixedFallbackModel ==
    [p \in Providers |->
        CASE p = "openai"    -> "gpt-4o-mini"
          [] p = "anthropic" -> "claude-3-5-haiku-20241022"
          [] p = "groq"      -> "llama-3.1-8b-instant"
          [] p = "google"    -> "gemini-2.0-flash-exp"]

C8_FailsIffNoProvider ==
    IsRouteCall
        => /\ (call.result = Raise("no_provider")) <=> ~SomeProviderAvailable
           /\ SomeProviderAvailable => call.result.kind = "ok"

\* C8 witness: a router built with an override and no credentials failed.
C8_Witness ==
    /\ IsRouteCall
    /\ ~SomeProviderAvailable
    /\ default_provider # ""
    /\ default_model # ""
    /\ call.result.kind = "raise"

-----------------------------------------------------------------------------
(* Properties of the coordinator, checked under Spec (one analyze call) and
   SpecBatch (one batch_analyze call) *)

\* _execute_parallel / _execute_sequential of asset p has returned its mapping
ExecReturned(p) == pipe[p] \in {"aggregate", "returned", "raised"}

\* C1: for every batch of uniquely named sub-tasks and every subset of them
\* that raises, the mapping returned by _execute_parallel and by
\* _execute_sequential has exactly the requested names as keys, an error
\* entry exactly for the sub-tasks that raised and the returned result for
\* every other one; every sibling of a failed sub-task was still executed.
C1_FailureIsolation ==
    \A p \in Assets :
        ExecReturned(p) =>
            \A a \in AgentTypes :
                IF a \in TaskNames
                THEN /\ task[p][a].pc \in {"returned", "raised"}
                     /\ task[p][a].pc = "raised" => results[p][a] = "error"
                     /\ task[p][a].pc = "returned" => results[p][a] = "result"
                ELSE results[p][a] = "absent"

\* C1 witness: a sequential run returned a mapping in which the first
\* sub-task failed and a later one succeeded.
C1_Witness ==
    /\ ~op.parallel
    /\ ExecReturned(1)
    /\ Len(Tasks) >= 2
    /\ results[1][Tasks[1]] = "error"
    /\ results[1][Tasks[Len(Tasks)]] = "result"

\* C2: over the lifetime of one coordinator and under every interleaving of
\* the workers of batch_analyze, _get_or_create_agent calls route_task at
\* most once and constructs at most one agent per agent type.  Stated here
\* for a router with a provider the agents accept, where every creation
\* succeeds and is stored in the cache.
C2_AtMostOneCreationPerType ==
    available_providers["openai"] =>
        \A a \in AgentTypes : route_calls[a] <= 1 /\ constructions[a] <= 1

\* C9: _execute_parallel returns only after every submitted sub-task has
\* settled: at its return no sub-task is queued or running and no entry of
\* the mapping is missing.
C9_ReturnsAfterAllSettled ==
    \A p \in Assets :
        (op.parallel /\ ExecReturned(p)) =>
            /\ Executing(p) = {}
            /\ \A a \in TaskNames :
                  /\ task[p][a].pc \notin {"pending", "queued"}
                  /\ results[p][a] # "absent"

\* C9 witness: a parallel run over three sub-tasks, limited to one worker,
\* has returned.
C9_Witness ==
    /\ op.parallel
    /\ ExecReturned(1)
    /\ Len(Tasks) = 3
    /\ max_workers = 1
    /\ \E a \in TaskNames : results[1][a] = "error"

\* C10: while one _execute_parallel call runs, the number of its sub-tasks
\* executing at the same time never exceeds max_workers.
C10_BoundedConcurrency ==
    \A p \in Assets :
        pipe[p] \in {"submit", "collect"} =>
            Cardinality(Executing(p)) <= max_workers

\* C10 witness: every worker is busy while a submitted sub-task waits.
C10_Witness ==
    /\ op.parallel
    /\ pipe[1] = "collect"
    /\ Cardinality(Executing(1)) = max_workers
    /\ \E a \in TaskNames : task[1][a].pc = "queued"

\* C11: once an agent instance for a type is stored in the cache it is never
\* replaced: the first caller's agent wins and every concurrent or later
\* caller for that type works with that same instance.
C11_FirstCallerWins ==
    [][\A a \in AgentTypes :
          agents[a] # 0 =>
              /\ agents'[a] = agents[a]
              /\ \A p \in Assets :
                    task'[p][a].pc = "call" => task'[p][a].agent = agents[a]]_vars

\* C12: for N distinct assets of type stock or crypto, every max_workers,
\* every completion order and every subset of assets whose pipeline raises,
\* batch_analyze returns exactly one entry per asset, an error entry exactly
\* for the assets that raised, and total_analyzed equal to N.
C12_BatchOneEntryPerAsset ==
    (batch_pc = "returned" /\ op.asset_type \in {"stock", "crypto"}) =>
        /\ \A p \in Assets :
              IF p <= op.n
              THEN /\ batch_results[p] \in {"record", "error"}
                   /\ batch_results[p] = "error" <=> pipe[p] = "raised"
              ELSE batch_results[p] = "absent"
        /\ total_analyzed = op.n

\* C12 witness: a batch over more assets than workers has returned with an
\* error entry for the first asset and a record for the last one.
C12_Witness ==
    /\ batch_pc = "returned"
    /\ op.n = NumTickers
    /\ op.n > max_workers
    /\ batch_results[1] = "error"
    /\ batch_results[op.n] = "record"
    /\ total_analyzed = op.n

\* The agent sub-tasks executing at this moment, over all assets
InFlight == {pa \in Assets \X AgentTypes : pa[2] \in Executing(pa[1])}

\* C13: at every moment of a batch_analyze call the number of agent
\* sub-tasks in flight, over all assets, is at most max_workers.
C13_BatchBoundedConcurrency ==
    op.kind = "batch_analyze" => Cardinality(InFlight) <= max_workers

\* C14: with no available provider the no-provider error stays in the
\* sub-task: no analyze_*_comprehensive call raises, each returns its record
\* with a failure entry for every requested sub-task, and the batch holds no
\* error entry.
C14_NoProviderContained ==
    ~SomeProviderAvailable =>
        \A p \in Assets :
            /\ pipe[p] # "raised"
            /\ batch_results[p] # "error"
            /\ pipe[p] = "returned" =>
                  \A a \in TaskNames : results[p][a] = "error"

\* C14 witness: without any credential a batch over every asset returned a
\* record for each of them.
C14_Witness ==
    /\ ~SomeProviderAvailable
    /\ batch_pc = "returned"
    /\ op.n = NumTickers
    /\ \A p \in Assets :
          /\ batch_results[p] = "record"
          /\ \A a \in TaskNames : results[p][a] = "error"
          /\ route_calls[Tasks[1]] >= NumTickers

\* An agent constructor was called for type a and no agent was stored: the
\* constructor raised
ConstructorRaised(a) == constructions[a] > 0 /\ agents[a] = 0

\* C28: with at least one available provider, the provider route_task
\* returns to _get_or_create_agent is one the agent constructors accept:
\* creating an agent of a known type never fails for an unsupported provider.
C28_RoutedProviderAccepted ==
    SomeProviderAvailable => \A a \in AgentTypes : ~ConstructorRaised(a)

\* Both executors have returned and each sub-task had the same outcome in
\* the two runs
SameOutcomes ==
    /\ ExecReturned(ParallelRun)
    /\ ExecReturned(SequentialRun)
    /\ \A a \in TaskNames :
          task[ParallelRun][a].pc = task[SequentialRun][a].pc

\* C29: for the same list of uniquely named sub-tasks and the same outcome
\* of each sub-task, _execute_parallel returns the same name-to-result
\* mapping as _execute_sequential, in whatever order the workers finish.
C29_ParallelAsSequential ==
    SameOutcomes => results[ParallelRun] = results[SequentialRun]

\* C29 witness: three sub-tasks on two workers, the first raised and the
\* last returned in both runs, and both mappings are complete.
C29_Witness ==
    /\ SameOutcomes
    /\ Len(Tasks) = 3
    /\ max_workers = 2
    /\ task[ParallelRun][Tasks[1]].pc = "raised"
    /\ task[ParallelRun][Tasks[3]].pc = "returned"
    /\ results[SequentialRun][Tasks[1]] = "error"
    /\ results[ParallelRun][Tasks[3]] = "result"

-----------------------------------------------------------------------------
(* Properties of the aggregator, checked under SpecAggregator *)

\* _determine_consensus was called on the mapping and returned a verdict
ConsensusReturned ==
    /\ aggregation.op = "determine_consensus"
    /\ aggregation.verdict.kind = "ok"

\* The items of the mapping whose entry is not a failure
NonFailed ==
    {i \in 1..Len(aggregation.results) : ~aggregation.results[i].entry.error}

\* The payload of item i is a text (an absent payload reads as the empty text)
HasText(i) ==
    \/ ~aggregation.results[i].entry.has_analysis
    \/ aggregation.results[i].entry.is_text

\* The payload text of item i contains the word, whatever the case
Mentions(i, word) ==
    /\ aggregation.results[i].entry.has_analysis
    /\ aggregation.results[i].entry.is_text
    /\ Contains(word, Upper(aggregation.results[i].entry.analysis))

\* The class of item i under the priority BUY, then SELL, then HOLD
ClassOf(i) ==
    IF Mentions(i, WordBuy) THEN "BUY"
    ELSE IF Mentions(i, WordSell) THEN "SELL"
    ELSE IF Mentions(i, WordHold) THEN "HOLD"
    ELSE "NONE"

\* The non-failed items of the given class
Tally(class) == {i \in NonFailed : ClassOf(i) = class}

\* The non-failed items that carry a signal
Tallied == Tally("BUY") \cup Tally("SELL") \cup Tally("HOLD")

\* The largest of the three tallies
LargestTally ==
    CHOOSE n \in {Cardinality(Tally(c)) : c \in {"BUY", "SELL", "HOLD"}} :
        \A c \in {"BUY", "SELL", "HOLD"} : Cardinality(Tally(c)) <= n

\* pct, in tenths of a percent, is num / den rounded to one decimal place
IsPercentOf(pct, num, den) ==
    /\ 2 * (pct * den - 1000 * num) <= den
    /\ 2 * (1000 * num - pct * den) <= den

\* C15: whenever at least one tally exists the recommendation is determined
\* by the three counts: BUY iff buy > sell and buy > hold, SELL iff
\* sell > buy and sell > hold, HOLD iff hold > buy and hold > sell, MIXED in
\* every other case (every tie for the largest count).
C15_RecommendationFromCounts ==
    (ConsensusReturned /\ Tallied # {}) =>
        LET buy  == Cardinality(Tally("BUY"))
            sell == Cardinality(Tally("SELL"))
            hold == Cardinality(Tally("HOLD"))
            rec  == aggregation.verdict.recommendation
        IN  /\ rec = "BUY"  <=> (buy > sell /\ buy > hold)
            /\ rec = "SELL" <=> (sell > buy /\ sell > hold)
            /\ rec = "HOLD" <=> (hold > buy /\ hold > sell)
            /\ rec = "MIXED" <=>
                  ~ \/ (buy > sell /\ buy > hold)
                    \/ (sell > buy /\ sell > hold)
                    \/ (hold > buy /\ hold > sell)
            /\ rec \in {"BUY", "SELL", "HOLD", "MIXED"}

\* C15 witness: one HOLD and one BUY, nothing else, gave MIXED.
C15_Witness ==
    /\ ConsensusReturned
    /\ Len(aggregation.results) = 2
    /\ ClassOf(1) = "HOLD"
    /\ ClassOf(2) = "BUY"
    /\ aggregation.verdict.recommendation = "MIXED"

\* C16: if no entry yields a BUY/SELL/HOLD tally (all entries failed, the
\* mapping is empty, or no successful text holds any of the three words),
\* the verdict is INSUFFICIENT_DATA with confidence 0 and agreement 0, even
\* when confidence numbers were extracted from the texts.
C16_InsufficientData ==
    (/\ aggregation.op = "determine_consensus"
     /\ Tallied = {}
     /\ \A i \in NonFailed : HasText(i))
        => /\ aggregation.verdict.kind = "ok"
           /\ aggregation.verdict.recommendation = "INSUFFICIENT_DATA"
           /\ aggregation.verdict.confidence = 0
           /\ aggregation.verdict.agreement = 0

\* C16 witness: a failed entry and a text with a confidence number but no
\* signal gave INSUFFICIENT_DATA.
C16_Witness ==
    /\ ConsensusReturned
    /\ Tallied = {}
    /\ \E i \in 1..Len(aggregation.results) : i \notin NonFailed
    /\ \E i \in NonFailed :
          ExtractConfidence(aggregation.results[i].entry.analysis) = 9
    /\ aggregation.verdict.recommendation = "INSUFFICIENT_DATA"

\* C17: every non-failed entry is tallied at most once, under the class
\* chosen by the priority BUY, then SELL, then HOLD (case-insensitive
\* substring); a text with none of the words counts nowhere and a failed
\* entry is never tallied; so BUY + SELL + HOLD never exceeds the number of
\* non-failed entries.
C17_TallyOncePerEntry ==
    (ConsensusReturned /\ "breakdown" \in aggregation.verdict.keys) =>
        /\ aggregation.verdict.breakdown.BUY = Cardinality(Tally("BUY"))
        /\ aggregation.verdict.breakdown.SELL = Cardinality(Tally("SELL"))
        /\ aggregation.verdict.breakdown.HOLD = Cardinality(Tally("HOLD"))
        /\ aggregation.verdict.breakdown.BUY + aggregation.verdict.breakdown.SELL
               + aggregation.verdict.breakdown.HOLD <= Cardinality(NonFailed)

\* C17 witness: a text naming both BUY and SELL was counted as BUY only,
\* beside a failed entry whose message names BUY and a text without signal.
C17_Witness ==
    /\ ConsensusReturned
    /\ Len(aggregation.results) = 3
    /\ Mentions(1, WordBuy) /\ Mentions(1, WordSell)
    /\ aggregation.results[2].entry.error
    /\ Contains(WordBuy, Upper(aggregation.results[2].entry.message))
    /\ 3 \in NonFailed /\ ClassOf(3) = "NONE"
    /\ aggregation.verdict.breakdown = [BUY |-> 1, SELL |-> 0, HOLD |-> 0]

\* C18: whenever at least one tally exists, agreement is the largest of the
\* three counts divided by total = BUY + SELL + HOLD, as a percentage
\* rounded to one decimal place.
C18_AgreementIsLargestShare ==
    (ConsensusReturned /\ Tallied # {}) =>
        IsPercentOf(aggregation.verdict.agreement, LargestTally,
                    Cardinality(Tallied))

\* C18 witness: two BUY and one SELL gave BUY with agreement 66.7.
C18_Witness ==
    /\ ConsensusReturned
    /\ Cardinality(Tally("BUY")) = 2
    /\ Cardinality(Tally("SELL")) = 1
    /\ aggregation.verdict.recommendation = "BUY"
    /\ aggregation.verdict.agreement = 667

\* C19 as claimed: agreement is the share of the non-failed entries whose
\* signal is the winning class; the denominator counts every non-failed
\* entry, those without a signal included.
C19_AgreementOverNonFailed ==
    (/\ ConsensusReturned
     /\ aggregation.verdict.recommendation \in {"BUY", "SELL", "HOLD"})
        => IsPercentOf(aggregation.verdict.agreement,
                       Cardinality(Tally(aggregation.verdict.recommendation)),
                       Cardinality(NonFailed))

\* C19 as amended: agreement is the share of the entries that carry a
\* signal (non-failed, with BUY, SELL or HOLD extracted) whose signal is
\* the winning class; non-failed entries without a signal are left out of
\* the denominator.
C19_AgreementOverTallied ==
    (/\ ConsensusReturned
     /\ aggregation.verdict.recommendation \in {"BUY", "SELL", "HOLD"})
        => IsPercentOf(aggregation.verdict.agreement,
                       Cardinality(Tally(aggregation.verdict.recommendation)),
                       Cardinality(Tallied))

\* C19 witness: one SELL beside two non-failed texts without a signal gave
\* SELL with agreement 100.
C19_Witness ==
    /\ ConsensusReturned
    /\ Cardinality(NonFailed) = 3
    /\ Cardinality(Tallied) = 1
    /\ aggregation.verdict.recommendation = "SELL"
    /\ aggregation.verdict.agreement = 1000

\* C20: every verdict, INSUFFICIENT_DATA included, carries the per-class
\* breakdown counts beside recommendation, confidence and agreement.
C20_VerdictHasBreakdown ==
    ConsensusReturned =>
        {"recommendation", "confidence", "agreement", "breakdown"}
            \subseteq aggregation.verdict.keys

\* The confidence number of item i, NoConfidence when its text has none
ScoreOf(i) ==
    IF aggregation.results[i].entry.has_analysis
           /\ aggregation.results[i].entry.is_text
    THEN ExtractConfidence(aggregation.results[i].entry.analysis)
    ELSE NoConfidence

\* The non-failed items whose text yields a confidence number
Scored == {i \in NonFailed : ScoreOf(i) # NoConfidence}

RECURSIVE SumScores(_)
\* The sum of the confidence numbers of the items of S
SumScores(S) ==
    IF S = {} THEN 0
    ELSE LET i == CHOOSE j \in S : TRUE
         IN  ScoreOf(i) + SumScores(S \ {i})

\* val, in tenths, is num / den rounded to one decimal place
IsTenthOf(val, num, den) ==
    /\ 2 * (val * den - 10 * num) <= den
    /\ 2 * (10 * num - val * den) <= den

\* C21: whenever at least one tally exists, confidence is the mean of the
\* integers extracted after the word "confidence" from the non-failed
\* entries (one per entry at most, whether or not the entry was tallied),
\* rounded to one decimal place, and 5.0 when no entry yields a number.
C21_ConfidenceIsMean ==
    (ConsensusReturned /\ Tallied # {}) =>
        IF Scored = {}
        THEN aggregation.verdict.confidence = 50
        ELSE IsTenthOf(aggregation.verdict.confidence, SumScores(Scored),
                       Cardinality(Scored))

\* C21 witness: 8 from a tallied entry and 9 from an entry without signal
\* gave confidence 8.5.
C21_Witness ==
    /\ ConsensusReturned
    /\ Cardinality(Scored) = 2
    /\ \E i \in Scored \cap Tallied : ScoreOf(i) = 8
    /\ \E i \in Scored \ Tallied : ScoreOf(i) = 9
    /\ aggregation.verdict.confidence = 85

\* C22: the confidence of every verdict lies on the 0-10 scale, whatever
\* integers follow the word "confidence" in the texts.
C22_ConfidenceOnScale ==
    ConsensusReturned =>
        /\ 0 <= aggregation.verdict.confidence
        /\ aggregation.verdict.confidence <= 100

-----------------------------------------------------------------------------
(* Order independence of the aggregator, checked under SpecCompletionOrders *)

\* The entries of the call in the order of the tasks list
InListOrder ==
    [i \in 1..Len(aggregation.results) |->
        aggregation.results[CHOOSE j \in 1..Len(aggregation.results) :
                                aggregation.results[j].name = EntryNames[i]]]

\* C23: _determine_consensus does not depend on the order of its input:
\* every iteration order of the same entries (every completion order of the
\* parallel sub-tasks) gives the recommendation, confidence, agreement and
\* breakdown that the order of the tasks list gives.
C23_OrderIndependent ==
    aggregation.op = "determine_consensus" =>
        aggregation.verdict = determine_consensus(InListOrder)

\* C23 witness: the last task of the list completed first with a BUY and a
\* confidence number, the first task completed last and failed, the middle
\* one said SELL.
C23_Witness ==
    /\ ConsensusReturned
    /\ Len(aggregation.results) = 3
    /\ aggregation.results[1].name = EntryNames[3]
    /\ aggregation.results[3].name = EntryNames[1]
    /\ aggregation.results[3].entry.error
    /\ ClassOf(2) = "SELL" /\ ScoreOf(2) = NoConfidence
    /\ ClassOf(1) = "BUY" /\ ScoreOf(1) = 8
    /\ aggregation.verdict.recommendation = "MIXED"

-----------------------------------------------------------------------------
(* Properties of the summary, checked under SpecSummary *)

\* _create_summary was called and returned
SummaryReturned ==
    aggregation.op = "create_summary" /\ aggregation.summary.kind = "ok"

RECURSIVE LinesOf(_)
\* The lines of a text: the pieces between its newline characters (the empty
\* text has no line)
LinesOf(text) ==
    IF text = << >> THEN << >>
    ELSE LET k == FirstIndexOf(text, "\n")
         IN  IF k > Len(text)
             THEN <<text>>
             ELSE IF k = Len(text)
             THEN <<SubSeq(text, 1, k - 1), << >> >>
             ELSE <<SubSeq(text, 1, k - 1)>>
                      \o LinesOf(SubSeq(text, k + 1, Len(text)))

\* body is the payload text before its first period, or the placeholder
IsFirstSentenceOf(body, text) ==
    IF text = << >>
    THEN body = NoAnalysisText
    ELSE /\ Len(body) <= Len(text)
         /\ body = SubSeq(text, 1, Len(body))
         /\ \A k \in 1..Len(body) : body[k] # "."
         /\ Len(body) < Len(text) => text[Len(body) + 1] = "."

\* line is the digest of item i
IsDigestOf(line, i) ==
    LET item == aggregation.results[i]
    IN  IF item.entry.error
        THEN line = NameText(item.name) \o ErrorMark \o item.entry.message
        ELSE \E n \in 0..Len(line) :
                /\ SubSeq(line, 1, n) = NameText(item.name) \o NameMark
                /\ IsFirstSentenceOf(SubSeq(line, n + 1, Len(line)),
                                     item.entry.analysis)

\* Every entry is what the executors store: an agent's result carrying a
\* text, or the record of a failure
EntriesFromExecutors ==
    \A i \in 1..Len(aggregation.results) :
        \/ aggregation.results[i].entry.error
        \/ /\ aggregation.results[i].entry.has_analysis
           /\ aggregation.results[i].entry.is_text

\* C24: the summary has exactly one digest line for every entry of the
\* result mapping, in the mapping's order: "{name}: Error - {message}" for a
\* failed entry, otherwise the name followed by the payload text before its
\* first period, or by a placeholder when the payload is empty.
C24_OneLinePerEntry ==
    (SummaryReturned /\ EntriesFromExecutors) =>
        LET lines == LinesOf(aggregation.summary.text)
        IN  /\ Len(lines) = Len(aggregation.results)
            /\ \A i \in 1..Len(lines) : IsDigestOf(lines[i], i)

-----------------------------------------------------------------------------
(* recommend_model under SpecRouter; the table queries under SpecQueries *)

\* The tier a task-type label stands for
ClaimedTier(task_type) ==
    IF task_type \in {"quick_lookup", "screening"} THEN "simple"
    ELSE IF task_type = "comparison" THEN "moderate"
    ELSE IF task_type = "analysis" THEN "complex"
    ELSE IF task_type = "deep_analysis" THEN "critical"
    ELSE "moderate"

\* Two router results name the same (provider, model) pair or both fail
SameChoice(r1, r2) ==
    /\ r1.kind = r2.kind
    /\ r1.kind = "ok" => r1.provider = r2.provider /\ r1.model = r2.model

\* C25: on a router without default provider/model, recommend_model returns
\* the pair route_task returns for the tier of the task type with max_cost
\* equal to the budget, and fails exactly when route_task fails.
C25_RecommendAsRouteTask ==
    (call.op = "recommend_model" /\ default_provider = ""
         /\ default_model = "") =>
        SameChoice(call.result,
                   route_task(ClaimedTier(call.task_type), call.max_cost))

\* C26: estimate_cost returns inputTokens/1e6 * inputCost + outputTokens/1e6
\* * outputCost for a model of the cost table (inputCost + outputCost for one
\* million tokens each way) and 0, without raising, for any other model,
\* whatever provider is named.
C26_EstimateCost ==
    call.op = "estimate_cost" =>
        /\ call.result.kind = "ok"
        /\ call.model \notin DOMAIN COST_MAP => call.result.value = 0
        /\ call.model \in DOMAIN COST_MAP =>
               /\ call.result.value
                      = call.input_tokens * COST_MAP[call.model].input
                        + call.output_tokens * COST_MAP[call.model].output
               /\ (call.input_tokens = Million
                       /\ call.output_tokens = Million) =>
                      call.result.value
                          = Million * (COST_MAP[call.model].input
                                       + COST_MAP[call.model].output)

\* C26 witness: a model outside the cost table, for a provider the router
\* does not know, was estimated at 0.
C26_Witness ==
    /\ call.op = "estimate_cost"
    /\ call.provider = "azure"
    /\ call.model = "gpt-5"
    /\ call.input_tokens = 2500
    /\ call.result = Value(0)

\* The models the tier tables name for a provider
TierModelsOf(provider) ==
    {m \in DOMAIN COST_MAP :
        \E t \in TaskComplexity :
            \E i \in 1..Len(COMPLEXITY_MODELS[t]) :
                COMPLEXITY_MODELS[t][i] = <<provider, m>>}

\* C27: whatever credentials are present (none included), constructing the
\* router and calling get_available_models succeeds, and the mapping has an
\* entry for exactly the available providers, each listing without
\* duplicates the models the tier tables name for that provider.
C27_AvailableModels ==
    call.op = "get_available_models" =>
        /\ DOMAIN call.result = {p \in Providers : available_providers[p]}
        /\ \A p \in DOMAIN call.result :
               /\ \A i, j \in 1..Len(call.result[p]) :
                      i # j => call.result[p][i] # call.result[p][j]
               /\ {call.result[p][i] : i \in 1..Len(call.result[p])}
                      = TierModelsOf(p)

\* C27 witness: with the Anthropic and Google credentials only, the two
\* entries list three and two models (the tier tables name one Anthropic
\* model twice).
C27_Witness ==
    /\ call.op = "get_available_models"
    /\ DOMAIN call.result = {"anthropic", "google"}
    /\ Len(call.result["anthropic"]) = 3
    /\ Len(call.result["google"]) = 2
    /\ Len(ModelsIn(TierPairs, "anthropic")) = 4

=============================================================================
